---- MODULE Spec2Model ----
(***************************************************************************)
(* Model of the ESG news collector: the chunk planner, the windowed fetch  *)
(* loop of handleSequenceGenerate (src/App.tsx), the retrying fetchESGNews *)
(* (src/services/geminiService.ts) and the user handlers handleStop and    *)
(* handleDelete.                                                           *)
(*                                                                         *)
(* JavaScript runs handlers to completion: an action of this model is the  *)
(* code that runs between two awaits.  Instants are counted in hours since *)
(* UTC midnight of day 0; a date string "YYYY-MM-DD" is a day number.      *)
(* Densities (itemsPerDay) are counted in tenths, the step of the input.   *)
(***************************************************************************)
EXTENDS Integers, Sequences, FiniteSets, TLC

\* ---------------------------------------------------------------- bounds
MaxRuns == 3            \* handleSequenceGenerate invocations explored
MaxFetches == 4         \* fetchESGNews calls explored, over all the runs
MaxFailures == 3        \* failing upstream requests explored, over all the runs
MaxDeletes == 1         \* handleDelete calls explored
MaxDay == 70            \* latest end date explored by the planner runs
MaxStart == 1           \* latest start date explored by the planner runs
MaxLen == 4             \* longest accumulator handed to handleDelete alone
MaxExport == 102        \* longest accumulator handed to handleDownload

\* ------------------------------------------------------ program constants
TARGET_ITEMS_PER_REQ == 25
MinChunkDays == 5
MaxChunkDays == 60
MinDensityTenths == 1   \* Math.max(0.1, itemsPerDay), in tenths
CONCURRENCY == 3
MAX_RETRIES == 3
MS_PER_DAY_HOURS == 24  \* 86400000 ms, in hours
DISPLAY_LIMIT == 100    \* NewsTable.tsx: data.slice(-100)

VARIABLES
  form,            \* arguments of the run: [start, end, density]
  dst,             \* the browser's time zone: [at, shift], one DST change
  apiKey,          \* process.env.API_KEY is set
  newsData,        \* App state: the accumulator, a sequence of item ids
  isGenerating,    \* App state
  progressStr,     \* App state, as the record of what the string states
  error,           \* App state
  stopRef,         \* stopRef.current
  pc,              \* where handleSequenceGenerate is suspended
  chunks,          \* local: the planned chunks
  i,               \* local: loop index of the window loop
  totalGenerated,  \* local
  errorCount,      \* local
  fetches,         \* per chunk: the state of its fetchESGNews promise
  thrown,          \* the error caught at line 114, "none" if none
  run,             \* history: number of runs started
  ndisp,           \* history: per chunk, number of fetchESGNews calls
  settled,         \* history: chunks of the current window, in settle order
  stopAt,          \* history: where the run was when handleStop was called
  deleted,         \* history: ids passed to handleDelete
  calls,           \* history: number of fetchESGNews calls, over all the runs
  failures,        \* history: number of failed upstream requests
  currentDate,     \* local: the cursor of the planning loop
  download         \* the lines of the file handleDownload last produced

vars == <<form, dst, apiKey, newsData, isGenerating, progressStr,
          error, stopRef, pc, chunks, i, totalGenerated, errorCount, fetches,
          thrown, run, ndisp, settled, stopAt, deleted, calls, failures,
          currentDate, download>>

\* ------------------------------------------------------------ arithmetic
Max(a, b) == IF a >= b THEN a ELSE b
Min(a, b) == IF a <= b THEN a ELSE b

\* Math.ceil(a / b) for b > 0 and any integer a
CeilDiv(a, b) == -((-a) \div b)

\* ------------------------------------------------------------- the dates
\* new Date("YYYY-MM-DD") is UTC midnight of that day
ParseDate(day) == MS_PER_DAY_HOURS * day

\* toISOString().split('T')[0] is the UTC calendar day of the instant
ISODate(t) == t \div MS_PER_DAY_HOURS

\* change of the local UTC offset in force at instant t
Offset(t) == IF dst.shift # 0 /\ t >= dst.at THEN dst.shift ELSE 0

\* d.setDate(d.getDate() + n): same local wall-clock time, n local days later
AddDays(t, n) ==
  LET naive == t + MS_PER_DAY_HOURS * n
  IN  naive - (Offset(naive) - Offset(t))

\* ----------------------------------------------------------- the planner
\* lines 38-40
ChunkDays(density) ==
  LET rawDays == CeilDiv(10 * TARGET_ITEMS_PER_REQ, Max(MinDensityTenths, density))
  IN  Max(MinChunkDays, Min(rawDays, MaxChunkDays))

\* variant of ActualEnd: the stride is not capped
ActualEndUncapped(chunkEnd, finalDate) == chunkEnd

\* line 50: the end of a stride, capped at the end of the range
ActualEnd(chunkEnd, finalDate) ==
  IF chunkEnd > finalDate THEN finalDate ELSE chunkEnd

\* variant of KeepsChunk: a chunk that asks for no item is kept too
KeepsChunkAlways(count) == TRUE

\* line 55: a chunk is kept only if it asks for at least one item
KeepsChunk(count) == count > 0

\* lines 48-62, one iteration of the loop: the cursor and the list after it
PlanStep(cursor, finalDate, chunkDays, density, acc) ==
  LET chunkEnd == AddDays(cursor, chunkDays)
      actualEnd == ActualEnd(chunkEnd, finalDate)
      \* Math.ceil(daysInChunk * itemsPerDay), hours and tenths
      count == CeilDiv((actualEnd - cursor) * density, 10 * MS_PER_DAY_HOURS)
  IN  [currentDate |-> actualEnd,
       chunks |-> IF KeepsChunk(count)
                  THEN Append(acc, [start |-> ISODate(cursor),
                                    end |-> ISODate(actualEnd),
                                    count |-> count])
                  ELSE acc]

\* lines 47-63, the loop from the cursor
RECURSIVE PlanFrom(_, _, _, _, _)
PlanFrom(cursor, finalDate, chunkDays, density, acc) ==
  IF ~(cursor < finalDate) THEN acc
  ELSE LET s == PlanStep(cursor, finalDate, chunkDays, density, acc)
       IN  PlanFrom(s.currentDate, finalDate, chunkDays, density, s.chunks)

\* lines 37-63
PlanChunks(f) ==
  PlanFrom(ParseDate(f.start), ParseDate(f.end), ChunkDays(f.density),
           f.density, <<>>)

\* ------------------------------------------------------------ the items
\* the numbers of items of the upstream responses explored: "[]" and two
ItemCounts == {0, 2}

\* generateId(): the k-th item of the response to chunk c of run r
Items(r, c, n) == [k \in 1..n |-> <<r, c, k>>]

Range(s) == {s[k] : k \in DOMAIN s}

\* ------------------------------------------------------- fetchESGNews
NotCalled == [st |-> "idle", attempt |-> 0, n |-> 0, err |-> "none"]

\* the promise of a call that returned n items (line 96); the local attempt
\* is gone with the call
Resolved(n) == [st |-> "resolved", attempt |-> 0, n |-> n, err |-> "none"]

\* the promise of a call that threw err (lines 17, 122, 127)
Rejected(err) == [st |-> "rejected", attempt |-> 0, n |-> 0, err |-> err]

\* lines 15-18 and 81-84 of geminiService.ts: the call up to its first await
StartFetch ==
  IF apiKey
  THEN [st |-> "pending", attempt |-> 0, n |-> 0, err |-> "none"]
  ELSE Rejected("KeyMissing")

HasSettled(f) == f.st \in {"resolved", "rejected"}

\* geminiService.ts line 121: error.message.includes("API Key")
IsApiKeyError(err) == err \in {"KeyMissing", "KeyOther"}

\* variant of IsCritical: only the missing key is critical
IsCriticalMissingOnly(err) == err = "KeyMissing"

\* App.tsx line 96: res.err.message.includes("API Key")
IsCritical(err) == err \in {"KeyMissing", "KeyOther"}

\* ------------------------------------------------- handleSequenceGenerate
\* variant of Batch: the slice has no upper end
BatchUnbounded(ch, i0) == {c \in 1..Len(ch) : i0 < c}

\* chunks.slice(i, i + CONCURRENCY), as the set of 1-based chunk numbers
Batch(ch, i0) == {c \in 1..Len(ch) : i0 < c /\ c <= i0 + CONCURRENCY}

\* variant of Results: the entries come in the order the fetches settled
ResultsInArrivalOrder(ch, i0) == settled

\* line 85: the array Promise.all resolves to, one entry per chunk of the
\* batch in the order of the batch, as chunk numbers
Results(ch, i0) == [k \in 1..Cardinality(Batch(ch, i0)) |-> i0 + k]

\* variant of LoopContinues: the stop flag is not tested
LoopContinuesIgnoringStop(ch, ni, stop) == ni < Len(ch)

\* variant of LoopContinues: the loop test admits the index Len(ch)
LoopContinuesOffByOne(ch, ni, stop) == ni <= Len(ch) /\ ~stop

\* lines 69-70: the loop test and the stop test
LoopContinues(ch, ni, stop) == ni < Len(ch) /\ ~stop

\* variant of Finally: the stop flag is not reset
FinallyKeepsStop ==
  /\ isGenerating' = FALSE
  /\ stopRef' = stopRef
  /\ pc' = "idle"

\* lines 129-132
Finally ==
  /\ isGenerating' = FALSE
  /\ stopRef' = FALSE
  /\ pc' = "idle"

TotalBatches(ch) == CeilDiv(Len(ch), CONCURRENCY)

NoProgress ==
  [kind |-> "empty", batchIdx |-> 0, totalBatches |-> 0, segs |-> 0,
   total |-> 0, errors |-> 0]

BatchProgress(ch, i0, tg, ec) ==
  [kind |-> "Batch", batchIdx |-> (i0 \div CONCURRENCY) + 1,
   totalBatches |-> TotalBatches(ch), segs |-> Cardinality(Batch(ch, i0)),
   total |-> tg, errors |-> ec]

\* variant of FinalProgress: a run that was stopped reports Completed when
\* no window was left to skip
FinalProgressStoppedIfSkipped(stop, tg, ec) ==
  [kind |-> IF stop /\ i + CONCURRENCY < Len(chunks)
            THEN "Stopped" ELSE "Completed",
   batchIdx |-> 0, totalBatches |-> 0, segs |-> 0, total |-> tg,
   errors |-> ec]

\* variant of FinalProgress: the stop flag is not consulted
FinalProgressAlwaysCompleted(stop, tg, ec) ==
  [kind |-> "Completed", batchIdx |-> 0,
   totalBatches |-> 0, segs |-> 0, total |-> tg, errors |-> ec]

\* lines 108-112
FinalProgress(stop, tg, ec) ==
  [kind |-> IF stop THEN "Stopped" ELSE "Completed", batchIdx |-> 0,
   totalBatches |-> 0, segs |-> 0, total |-> tg, errors |-> ec]

\* lines 69-85 when the loop goes on, lines 108-112 and 129-132 when it ends:
\* the code from the loop test at index ni up to the next await or the return
LoopHead(ch, ni, tg, ec, F, ND, stop) ==
  IF LoopContinues(ch, ni, stop)
  THEN /\ pc' = "await"
       /\ i' = ni
       /\ progressStr' = BatchProgress(ch, ni, tg, ec)
       /\ fetches' = [c \in DOMAIN F |->
                        IF c \in Batch(ch, ni) THEN StartFetch ELSE F[c]]
       /\ ndisp' = [c \in DOMAIN ND |->
                        IF c \in Batch(ch, ni) THEN ND[c] + 1 ELSE ND[c]]
       /\ settled' = IF apiKey THEN <<>>
                     ELSE [k \in 1..Cardinality(Batch(ch, ni)) |-> ni + k]
       /\ calls' = calls + Cardinality(Batch(ch, ni))
       /\ isGenerating' = TRUE
       /\ stopRef' = stop
  ELSE /\ i' = ni
       /\ progressStr' = FinalProgress(stop, tg, ec)
       /\ fetches' = F
       /\ ndisp' = ND
       /\ settled' = settled
       /\ calls' = calls
       /\ Finally

\* variant of StartOffered: the Start button is always there
StartOfferedAlways == TRUE

\* ControlPanel.tsx line 148: the Start button is rendered when !isGenerating
StartOffered == ~isGenerating

\* lines 20-33, the planner, and the loop up to the first await
handleSequenceGenerate(f) ==
  /\ StartOffered
  /\ run < MaxRuns
  /\ calls + Len(PlanChunks(f)) <= MaxFetches
  /\ form' = f
  /\ run' = run + 1
  /\ error' = "null"
  /\ thrown' = "none"
  /\ totalGenerated' = 0
  /\ errorCount' = 0
  /\ chunks' = PlanChunks(f)
  /\ stopAt' = [pc |-> "none", i |-> 0]
  /\ LoopHead(chunks', 0, 0, 0,
              [c \in 1..Len(chunks') |-> NotCalled],
              [c \in 1..Len(chunks') |-> 0], FALSE)
  /\ UNCHANGED <<dst, currentDate, download, apiKey, newsData, deleted, failures>>

\* geminiService.ts lines 84-114: the upstream request of chunk c succeeds
RequestOk(c, n) ==
  /\ c \in DOMAIN fetches
  /\ fetches[c].st = "pending"
  /\ fetches' = [fetches EXCEPT ![c] = Resolved(n)]
  /\ settled' = Append(settled, c)
  /\ UNCHANGED <<form, dst, currentDate, download, apiKey, newsData, isGenerating,
                 progressStr, error, stopRef, pc, chunks, i, totalGenerated,
                 errorCount, thrown, run, ndisp, stopAt, deleted, calls, failures>>

\* variant of AfterError: the retries stop one failure later
AfterErrorOneMore(f, kind) ==
  LET attempt == f.attempt + 1
  IN  IF IsApiKeyError(kind) THEN Rejected(kind)
      ELSE IF attempt > MAX_RETRIES THEN Rejected(kind)
      ELSE [f EXCEPT !.st = "backoff", !.attempt = attempt]

\* variant of AfterError: the catch block does not look at MAX_RETRIES
AfterErrorNoLimit(f, kind) ==
  LET attempt == f.attempt + 1
  IN  IF IsApiKeyError(kind) THEN Rejected(kind)
      ELSE [f EXCEPT !.st = "backoff", !.attempt = attempt]

\* geminiService.ts lines 116-131: what the catch block makes of an error
AfterError(f, kind) ==
  LET attempt == f.attempt + 1
  IN  IF IsApiKeyError(kind) THEN Rejected(kind)
      ELSE IF attempt = MAX_RETRIES THEN Rejected(kind)
      ELSE [f EXCEPT !.st = "backoff", !.attempt = attempt]

\* geminiService.ts line 131: 1000 * Math.pow(2, attempt), in milliseconds,
\* for the value attempt has after line 117
BackoffDelay(attempt) == 1000 * 2 ^ attempt

\* geminiService.ts lines 84-131: the upstream request of chunk c fails
RequestFail(c, kind) ==
  /\ c \in DOMAIN fetches
  /\ fetches[c].st = "pending"
  /\ failures < MaxFailures
  /\ failures' = failures + 1
  /\ fetches' = [fetches EXCEPT ![c] = AfterError(@, kind)]
  /\ settled' = IF HasSettled(fetches'[c]) THEN Append(settled, c) ELSE settled
  /\ UNCHANGED <<form, dst, currentDate, download, apiKey, newsData, isGenerating,
                 progressStr, error, stopRef, pc, chunks, i, totalGenerated,
                 errorCount, thrown, run, ndisp, stopAt, deleted, calls>>

\* geminiService.ts lines 82 and 136: the loop test after a backoff; when it
\* fails the statement after the loop throws
AfterBackoff(f) ==
  IF f.attempt < MAX_RETRIES THEN [f EXCEPT !.st = "pending"]
  ELSE Rejected("Exhausted")

\* geminiService.ts lines 131 and 82-84: the backoff timer fires, the loop
\* test is evaluated and the next request is issued
BackoffDone(c) ==
  /\ c \in DOMAIN fetches
  /\ fetches[c].st = "backoff"
  /\ fetches' = [fetches EXCEPT ![c] = AfterBackoff(@)]
  /\ settled' = IF HasSettled(fetches'[c]) THEN Append(settled, c) ELSE settled
  /\ UNCHANGED <<form, dst, currentDate, download, apiKey, newsData,
                 isGenerating, progressStr, error, stopRef, pc, chunks, i,
                 totalGenerated, errorCount, thrown, run, ndisp, stopAt,
                 deleted, calls, failures>>

\* lines 88-100: the loop over results, from its k-th entry on
RECURSIVE ProcessFrom(_, _, _)
ProcessFrom(results, k, acc) ==
  IF k > Len(results) THEN acc
  ELSE
    LET c == results[k]
        f == fetches[c]
    IN  IF f.st = "resolved"
        THEN ProcessFrom(results, k + 1,
                         [acc EXCEPT !.data = @ \o Items(run, c, f.n),
                                     !.tg = @ + f.n])
        ELSE IF IsCritical(f.err)
        THEN [acc EXCEPT !.ec = @ + 1, !.thrown = f.err]
        ELSE ProcessFrom(results, k + 1, [acc EXCEPT !.ec = @ + 1])

\* variant of ProcessBatch: the update is not functional, the items of the
\* batch replace the accumulator
ProcessBatchReplacing ==
  ProcessFrom(Results(chunks, i), 1,
              [data |-> <<>>, tg |-> totalGenerated, ec |-> errorCount,
               thrown |-> "none"])

\* variant of ProcessBatch: the counters restart with every batch
ProcessBatchFreshCounters ==
  ProcessFrom(Results(chunks, i), 1,
              [data |-> newsData, tg |-> 0, ec |-> 0, thrown |-> "none"])

\* lines 85-100 on the current batch
ProcessBatch ==
  ProcessFrom(Results(chunks, i), 1,
              [data |-> newsData, tg |-> totalGenerated, ec |-> errorCount,
               thrown |-> "none"])

\* lines 114-128 for the caught error err, aistudio telling whether
\* window.aistudio.openSelectKey exists; up to the await of openSelectKey or through the finally
Catch(err, aistudio) ==
  IF err = "KeyMissing"
  THEN IF aistudio
       THEN /\ pc' = "selectKey"
            /\ UNCHANGED <<error, isGenerating, stopRef>>
       ELSE /\ error' = "DialogUnavailable"
            /\ Finally
  ELSE /\ error' = err
       /\ Finally

\* variant of ContinuationQueued: the first fetch to settle resumes the run
ContinuationQueuedOnFirst ==
  pc = "await" /\ \E c \in Batch(chunks, i) : HasSettled(fetches[c])

\* line 85: once the last fetch of the batch has settled, the continuation
\* of await Promise.all is a queued microtask; it runs before any user event
ContinuationQueued ==
  pc = "await" /\ \A c \in Batch(chunks, i) : HasSettled(fetches[c])

\* variant of PauseNeeded: the stop flag is not consulted
PauseNeededIgnoringStop(ch, i0, stop) == i0 + CONCURRENCY < Len(ch)

\* line 103: the test that guards the 1 second pause
PauseNeeded(ch, i0, stop) == i0 + CONCURRENCY < Len(ch) /\ ~stop

\* lines 85-106: Promise.all has resolved; the results are processed in order
ProcessResults ==
  /\ ContinuationQueued
  /\ LET r == ProcessBatch
     IN  /\ newsData' = r.data
         /\ totalGenerated' = r.tg
         /\ errorCount' = r.ec
         /\ thrown' = r.thrown
         /\ IF r.thrown # "none"
            THEN /\ \E aistudio \in BOOLEAN : Catch(r.thrown, aistudio)
                 /\ UNCHANGED <<i, progressStr, fetches, ndisp, settled,
                                calls>>
            ELSE IF PauseNeeded(chunks, i, stopRef)
            THEN /\ pc' = "pause"
                 /\ UNCHANGED <<i, progressStr, fetches, ndisp, settled,
                                calls, isGenerating, stopRef, error>>
            ELSE /\ LoopHead(chunks, i + CONCURRENCY, r.tg, r.ec, fetches,
                             ndisp, stopRef)
                 /\ UNCHANGED error
  /\ UNCHANGED <<form, dst, currentDate, download, apiKey, chunks, run, stopAt, deleted, failures>>

\* lines 104-106 and the next turn of the loop: the 1 second timer fires
PauseDone ==
  /\ pc = "pause"
  /\ LoopHead(chunks, i + CONCURRENCY, totalGenerated, errorCount, fetches,
              ndisp, stopRef)
  /\ UNCHANGED <<form, dst, currentDate, download, apiKey, newsData, error, chunks,
                 totalGenerated, errorCount, thrown, run, stopAt, deleted, failures>>

\* lines 118-119 and 129-132: openSelectKey() resolves; the dialog may have
\* provided a key
SelectKeyResolved ==
  /\ pc = "selectKey"
  /\ error' = "KeySelected"
  /\ Finally
  /\ apiKey' \in {apiKey, TRUE}
  /\ UNCHANGED <<form, dst, currentDate, download, newsData, progressStr, chunks, i,
                 totalGenerated, errorCount, fetches, thrown, run, ndisp,
                 settled, stopAt, deleted, calls, failures>>

\* lines 123-125 and 129-132: openSelectKey() rejects
SelectKeyRejected ==
  /\ pc = "selectKey"
  /\ error' = "SelectorFailed"
  /\ Finally
  /\ UNCHANGED <<form, dst, currentDate, download, apiKey, newsData, progressStr, chunks,
                 i, totalGenerated, errorCount, fetches, thrown, run, ndisp,
                 settled, stopAt, deleted, calls, failures>>

\* variant of handleStop: the calls in flight are aborted
handleStopAborting ==
  /\ ~ContinuationQueued
  /\ isGenerating
  /\ stopRef' = TRUE
  /\ stopAt' = IF stopAt.pc = "none" THEN [pc |-> pc, i |-> i] ELSE stopAt
  /\ fetches' = [c \in DOMAIN fetches |->
                   IF fetches[c].st \in {"pending", "backoff"}
                   THEN Rejected("Aborted") ELSE fetches[c]]
  /\ UNCHANGED <<form, dst, currentDate, download, apiKey, newsData,
                 isGenerating, progressStr, error, pc, chunks, i,
                 totalGenerated, errorCount, thrown, run, ndisp, settled,
                 deleted, calls, failures>>

\* lines 16-18; the Stop button exists only while isGenerating
handleStop ==
  /\ ~ContinuationQueued
  /\ isGenerating                      \* ControlPanel.tsx:148-162
  /\ stopRef' = TRUE
  /\ stopAt' = IF stopAt.pc = "none" THEN [pc |-> pc, i |-> i] ELSE stopAt
  /\ UNCHANGED <<form, dst, currentDate, download, apiKey, newsData, isGenerating,
                 progressStr, error, pc, chunks, i, totalGenerated,
                 errorCount, fetches, thrown, run, ndisp, settled, deleted, calls, failures>>

\* variant of Without: only the first item with the id is removed
WithoutFirst(s, id) ==
  IF \A k \in DOMAIN s : s[k] # id THEN s
  ELSE LET k == CHOOSE a \in DOMAIN s :
                  s[a] = id /\ \A b \in DOMAIN s : s[b] = id => a <= b
       IN  SubSeq(s, 1, k - 1) \o SubSeq(s, k + 1, Len(s))

\* prev.filter(item => item.id !== id)
Without(s, id) == SelectSeq(s, LAMBDA it : it # id)

\* lines 136-138; the delete button of a row of NewsTable
handleDelete(id) ==
  /\ ~ContinuationQueued
  /\ Cardinality(deleted \cup {id}) <= MaxDeletes
  /\ newsData' = Without(newsData, id)
  /\ deleted' = deleted \cup {id}
  /\ UNCHANGED <<form, dst, currentDate, download, apiKey, isGenerating, progressStr,
                 error, stopRef, pc, chunks, i, totalGenerated, errorCount,
                 fetches, thrown, run, ndisp, settled, stopAt, calls, failures>>

\* ------------------------------------------------------- handleDownload
\* an item of the model is its id; its text has a double quote when the
\* number of the item in its response is even, its source is missing when odd
TextOf(it) == IF it[3] % 2 = 0 THEN <<"a", "\"", "b">> ELSE <<"a">>

SourceOf(it) == IF it[3] % 2 = 0 THEN <<"s">> ELSE <<>>

\* replace(/"/g, '""')
RECURSIVE DoubleQuotes(_)
DoubleQuotes(t) ==
  IF t = <<>> THEN <<>>
  ELSE (IF Head(t) = "\"" THEN <<"\"", "\"">> ELSE <<Head(t)>>)
         \o DoubleQuotes(Tail(t))

\* lines 148-149: the field between double quotes, its own quotes doubled
Quoted(t) == <<"\"">> \o DoubleQuotes(t) \o <<"\"">>

\* lines 146-151: the row of an item, field by field; the time of an item
\* is known by the run and the chunk it answers
Row(it) ==
  [time |-> <<it[1], it[2]>>, id |-> it, text |-> Quoted(TextOf(it)),
   source |-> Quoted(SourceOf(it))]

\* line 145
Headers == "Time,Sample ID,text,source"

\* NewsTable.tsx line 22: data.slice(-100)
LastItems(data) ==
  IF Len(data) <= DISPLAY_LIMIT THEN data
  ELSE SubSeq(data, Len(data) - DISPLAY_LIMIT + 1, Len(data))

\* NewsTable.tsx line 22: data.slice(-100).reverse(), the rows of the table
DisplayData(data) ==
  LET last == LastItems(data)
  IN  [k \in 1..Len(last) |-> last[Len(last) + 1 - k]]

\* variant of ExportRows: the rows of the items the table keeps
ExportRowsDisplayed(data) ==
  [k \in 1..Len(LastItems(data)) |-> Row(LastItems(data)[k])]

\* line 146: newsData.map(...)
ExportRows(data) == [k \in 1..Len(data) |-> Row(data[k])]

\* lines 141-163: the lines of the file, joined by "\n" at line 153; the
\* button is disabled during a run (ControlPanel.tsx:176)
handleDownload ==
  /\ ~ContinuationQueued
  /\ ~isGenerating
  /\ download' = IF Len(newsData) = 0 THEN download
                 ELSE <<Headers>> \o ExportRows(newsData)
  /\ UNCHANGED <<form, dst, currentDate, apiKey, newsData, isGenerating,
                 progressStr, error, stopRef, pc, chunks, i, totalGenerated,
                 errorCount, fetches, thrown, run, ndisp, settled, stopAt,
                 deleted, calls, failures>>

\* ------------------------------------------------------ specifications
NoDst == [at |-> 0, shift |-> 0]

\* the requests of the runs explored: 5.0 items per day over 3 and 17 days,
\* that is 1 chunk and 4 chunks (a window of 3 and a window of 1)
RunForms == {[start |-> 0, end |-> e, density |-> 50] : e \in {3, 17}}

InitLocals ==
  /\ isGenerating = FALSE
  /\ progressStr = NoProgress
  /\ error = "null"
  /\ stopRef = FALSE
  /\ pc = "idle"
  /\ chunks = <<>>
  /\ i = 0
  /\ totalGenerated = 0
  /\ errorCount = 0
  /\ fetches = <<>>
  /\ thrown = "none"
  /\ run = 0
  /\ ndisp = <<>>
  /\ settled = <<>>
  /\ stopAt = [pc |-> "none", i |-> 0]
  /\ deleted = {}
  /\ calls = 0
  /\ failures = 0
  /\ currentDate = 0
  /\ download = <<>>

InitRest ==
  /\ newsData = <<>>
  /\ InitLocals

\* the defaults of the form, ControlPanel.tsx:23-26, in days since 2015-01-01
DefaultForm == [start |-> 0, end |-> 3957, density |-> 15]

Init ==
  /\ form = DefaultForm
  /\ dst = NoDst
  /\ apiKey \in BOOLEAN
  /\ InitRest

Next ==
  \/ \E f \in RunForms : handleSequenceGenerate(f)
  \/ \E c \in 1..Len(chunks) : \E n \in ItemCounts : RequestOk(c, n)
  \/ \E c \in 1..Len(chunks) : \E kind \in {"Transient", "KeyOther"} :
        RequestFail(c, kind)
  \/ \E c \in 1..Len(chunks) : BackoffDone(c)
  \/ ProcessResults
  \/ PauseDone
  \/ SelectKeyResolved
  \/ SelectKeyRejected
  \/ handleStop
  \/ \E id \in Range(newsData) : handleDelete(id)

Spec == Init /\ [][Next]_vars

\* every await of the run is eventually resumed: each upstream request is
\* answered, each timer fires, the key dialog closes
Fairness ==
  /\ WF_vars(ProcessResults)
  /\ WF_vars(PauseDone)
  /\ WF_vars(SelectKeyResolved \/ SelectKeyRejected)
  /\ \A c \in 1..MaxFetches :
       /\ WF_vars((\E n \in ItemCounts : RequestOk(c, n))
                  \/ (\E kind \in {"Transient", "KeyOther"} :
                        RequestFail(c, kind)))
       /\ WF_vars(BackoffDone(c))

SpecLive == Init /\ [][Next]_vars /\ Fairness

\* the planner alone, lines 37-63, on a wide set of requests and time zones
PlanDensities == {-5, 0, 1, 4, 10, 15, 50, 100}

PlanForms ==
  {[start |-> a, end |-> b, density |-> d] :
     a \in 0..MaxStart, b \in 0..MaxDay, d \in PlanDensities}

\* no DST change, or one of an hour either way at 07:00 UTC of some day
PlanDst ==
  {NoDst} \cup {[at |-> MS_PER_DAY_HOURS * d + 7, shift |-> h] :
                  d \in {2, 31}, h \in {-1, 1}}

InitPlan ==
  /\ form \in PlanForms
  /\ dst \in PlanDst
  /\ apiKey = TRUE
  /\ InitRest

Plan ==
  /\ pc = "idle"
  /\ run = 0
  /\ run' = 1
  /\ pc' = "planned"
  /\ chunks' = PlanChunks(form)
  /\ UNCHANGED <<form, dst, currentDate, download, apiKey, newsData, isGenerating,
                 progressStr, error, stopRef, i, totalGenerated, errorCount,
                 fetches, thrown, ndisp, settled, stopAt, deleted, calls,
                 failures>>

NextPlan == Plan

SpecPlan == InitPlan /\ [][NextPlan]_vars

\* the planner again, one iteration of its loop at a time
\* lines 37-45: the stride is computed and the cursor set at the start
PlanBegin ==
  /\ pc = "idle"
  /\ run = 0
  /\ run' = 1
  /\ pc' = "planning"
  /\ currentDate' = ParseDate(form.start)
  /\ chunks' = <<>>
  /\ UNCHANGED <<form, dst, download, apiKey, newsData, isGenerating,
                 progressStr, error, stopRef, i, totalGenerated, errorCount,
                 fetches, thrown, ndisp, settled, stopAt, deleted, calls,
                 failures>>

\* lines 47-62: the loop test holds, one iteration
PlanIterate ==
  /\ pc = "planning"
  /\ currentDate < ParseDate(form.end)
  /\ LET s == PlanStep(currentDate, ParseDate(form.end),
                       ChunkDays(form.density), form.density, chunks)
     IN  /\ currentDate' = s.currentDate
         /\ chunks' = s.chunks
  /\ UNCHANGED <<form, dst, download, apiKey, newsData, isGenerating,
                 progressStr, error, stopRef, pc, i, totalGenerated,
                 errorCount, fetches, thrown, run, ndisp, settled, stopAt,
                 deleted, calls, failures>>

\* line 47: the loop test fails, the list is complete
PlanEnd ==
  /\ pc = "planning"
  /\ ~(currentDate < ParseDate(form.end))
  /\ pc' = "planned"
  /\ UNCHANGED <<form, dst, currentDate, download, apiKey, newsData,
                 isGenerating, progressStr, error, stopRef, chunks, i,
                 totalGenerated, errorCount, fetches, thrown, run, ndisp,
                 settled, stopAt, deleted, calls, failures>>

NextPlanLoop == PlanBegin \/ PlanIterate \/ PlanEnd

\* the loop is synchronous code: once entered it keeps running
SpecPlanLoop ==
  InitPlan /\ [][NextPlanLoop]_vars /\ WF_vars(PlanIterate) /\ WF_vars(PlanEnd)

\* runs over an empty range and over 3 days (1 chunk), every other handler
\* as in Spec; no run has a second window, so no pause is ever taken
EmptyRunForms ==
  {[start |-> a, end |-> b, density |-> 50] :
     a \in {0, 3}, b \in {3}} \cup {[start |-> 0, end |-> 0, density |-> 50]}

NextEmpty ==
  \/ \E f \in EmptyRunForms : handleSequenceGenerate(f)
  \/ \E c \in 1..Len(chunks) : \E n \in ItemCounts : RequestOk(c, n)
  \/ \E c \in 1..Len(chunks) : \E kind \in {"Transient", "KeyOther"} :
        RequestFail(c, kind)
  \/ \E c \in 1..Len(chunks) : BackoffDone(c)
  \/ ProcessResults
  \/ SelectKeyResolved
  \/ SelectKeyRejected
  \/ handleStop
  \/ \E id \in Range(newsData) : handleDelete(id)

SpecEmpty == Init /\ [][NextEmpty]_vars

\* handleDelete alone, lines 136-138, on every accumulator of a few items,
\* items with equal ids included, and every id, absent ones included
DeleteIds == {<<1, 1, 1>>, <<1, 1, 2>>, <<1, 2, 1>>}

InitDelete ==
  /\ form = DefaultForm
  /\ dst = NoDst
  /\ apiKey = TRUE
  /\ newsData \in UNION {[1..n -> DeleteIds] : n \in 0..MaxLen}
  /\ InitLocals

NextDelete == \E id \in DeleteIds : handleDelete(id)

SpecDelete == InitDelete /\ [][NextDelete]_vars

\* handleDownload alone, on accumulators of up to MaxExport items
InitExport ==
  /\ form = DefaultForm
  /\ dst = NoDst
  /\ apiKey = TRUE
  /\ newsData \in {Items(1, 1, n) : n \in 0..MaxExport}
  /\ InitLocals

NextExport == handleDownload

SpecExport == InitExport /\ [][NextExport]_vars

TypeOK ==
  /\ pc \in {"idle", "await", "pause", "selectKey", "planning", "planned"}
  /\ isGenerating \in BOOLEAN
  /\ stopRef \in BOOLEAN

\* ------------------------------------------------------------ properties
\* fetchESGNews calls that have been dispatched and have not settled
InFlight == {c \in DOMAIN fetches : fetches[c].st \in {"pending", "backoff"}}

\* the last run has returned
Terminated == pc = "idle" /\ run > 0

\* chunks whose fetch failed with a message containing "API Key"
FatalChunks ==
  {c \in DOMAIN fetches :
     fetches[c].st = "rejected" /\ fetches[c].err \in {"KeyMissing", "KeyOther"}}

Succeeded == {c \in DOMAIN fetches : fetches[c].st = "resolved"}

Failed == {c \in DOMAIN fetches : fetches[c].st = "rejected"}

\* the window of chunk c, counted from 0
WindowOf(c) == (c - 1) \div 3

\* the items of chunk c are in the accumulator, but for those the user deleted
Retained(c) ==
  \A k \in 1..fetches[c].n : <<run, c, k>> \in Range(newsData) \cup deleted

\* position of x in the sequence s, 0 if absent
Pos(s, x) == IF x \in Range(s) THEN CHOOSE k \in DOMAIN s : s[k] = x ELSE 0

RECURSIVE SumItems(_)
SumItems(S) ==
  IF S = {} THEN 0
  ELSE LET c == CHOOSE x \in S : TRUE IN fetches[c].n + SumItems(S \ {c})

\* C1: at every moment of a run at most CONCURRENCY (3) fetchESGNews calls
\* have been dispatched and have not settled
ConcurrencyBound == Cardinality(InFlight) <= 3

ConcurrencyBoundWitness == Cardinality(InFlight) = 3 /\ Len(chunks) > 3

\* C2: once a chunk of window k has failed with an "API Key" error, no chunk
\* of a later window is ever dispatched and the run never pauses after k
FatalShortCircuit ==
  \A c \in FatalChunks :
    /\ \A d \in DOMAIN fetches : WindowOf(d) > WindowOf(c) => ndisp[d] = 0
    /\ pc # "pause"

FatalShortCircuitWitness ==
  /\ Terminated
  /\ Len(chunks) > 3
  /\ \E c \in FatalChunks : fetches[c].err = "KeyOther"

\* C3: when the run has terminated, every chunk that resolved successfully
\* before a fatally failing chunk of its window settled has its items in the
\* accumulator, wherever it stands in the window
FatalWindowKeepsSuccesses ==
  Terminated =>
    \A c \in FatalChunks : \A d \in Succeeded :
      (WindowOf(d) = WindowOf(c) /\ Pos(settled, d) < Pos(settled, c))
        => Retained(d)

\* C4: after a handleStop during the pause that follows window k no chunk of
\* a later window is dispatched, and when the run has terminated the items of
\* every successful chunk of the windows up to k are in the accumulator
CancelAtPause ==
  stopAt.pc = "pause" =>
    /\ \A d \in DOMAIN fetches : d > stopAt.i + 3 => ndisp[d] = 0
    /\ Terminated =>
         \A c \in Succeeded : c <= stopAt.i + 3 => Retained(c)

CancelAtPauseWitness ==
  /\ Terminated
  /\ stopAt.pc = "pause"
  /\ Len(chunks) > stopAt.i + 3
  /\ \E c \in Succeeded : fetches[c].n > 0 /\ <<run, c, 1>> \in Range(newsData)

\* C5: after a handleStop while the fetches of window k are in flight, every
\* fetch of window k has settled when the run terminates and the items of
\* each one that succeeded are in the accumulator
NoRollbackOnCancel ==
  (Terminated /\ stopAt.pc = "await") =>
    \A c \in Batch(chunks, stopAt.i) :
      /\ HasSettled(fetches[c])
      /\ fetches[c].st = "resolved" => Retained(c)

\* C6: a run without fatal failure and without stop request dispatches every
\* planned chunk exactly once, and terminates as Completed with errorCount
\* the number of failed chunks and totalGenerated the number of items of the
\* successful ones
FailureIsolation ==
  /\ \A c \in DOMAIN ndisp : ndisp[c] <= 1
  /\ (Terminated /\ FatalChunks = {} /\ stopAt.pc = "none") =>
       /\ \A c \in 1..Len(chunks) : ndisp[c] = 1 /\ HasSettled(fetches[c])
       /\ errorCount = Cardinality(Failed)
       /\ totalGenerated = SumItems(Succeeded)
       /\ progressStr.kind = "Completed"
       /\ progressStr.total = totalGenerated
       /\ progressStr.errors = errorCount

FailureIsolationWitness ==
  /\ Terminated /\ FatalChunks = {} /\ stopAt.pc = "none"
  /\ Len(chunks) > 3
  /\ \E c \in Failed : c <= 3
  /\ \E c \in Succeeded : c <= 3 /\ fetches[c].n > 0
  /\ \E c \in Succeeded : c > 3 /\ fetches[c].n > 0

\* C7, as claimed: the items of two successful chunks of one window stand in
\* the accumulator in the order in which their fetches resolved
ArrivalOrderAppend ==
  \A a \in Succeeded : \A b \in Succeeded :
    (/\ Pos(settled, a) > 0
     /\ Pos(settled, a) < Pos(settled, b)
     /\ <<run, a, 1>> \in Range(newsData)
     /\ <<run, b, 1>> \in Range(newsData))
      => Pos(newsData, <<run, a, 1>>) < Pos(newsData, <<run, b, 1>>)

\* C7, amended: the items of two successful chunks of one window stand in the
\* accumulator in the order of the chunks in the window, and no item of a
\* window is in the accumulator while Promise.all of that window is pending
SubmissionOrderAppend ==
  /\ \A a \in Succeeded : \A b \in Succeeded :
       (/\ a < b
        /\ WindowOf(a) = WindowOf(b)
        /\ <<run, a, 1>> \in Range(newsData)
        /\ <<run, b, 1>> \in Range(newsData))
         => Pos(newsData, <<run, a, 1>>) < Pos(newsData, <<run, b, 1>>)
  /\ pc = "await" =>
       \A id \in Range(newsData) :
         ~(id[1] = run /\ id[2] \in Batch(chunks, i))

\* chunk 2 resolved before chunk 1 and both have their items appended
SubmissionOrderAppendWitness ==
  /\ Pos(settled, 2) > 0
  /\ Pos(settled, 2) < Pos(settled, 1)
  /\ <<run, 1, 1>> \in Range(newsData)
  /\ <<run, 2, 1>> \in Range(newsData)

\* C8, as claimed: whenever a run has terminated, progressStr states the
\* outcome (completed, stopped or aborted) and the two totals
TerminalReport ==
  Terminated =>
    /\ progressStr.kind \in {"Completed", "Stopped", "Aborted"}
    /\ progressStr.total = totalGenerated
    /\ progressStr.errors = errorCount

\* C8, amended: a run that ends without fatal error leaves the message
\* "Stopped" if the user asked to stop and "Completed" otherwise, with the
\* number of items of the successful chunks and the number of failed chunks;
\* a run aborted by a fatal error sets no terminal message: progressStr is
\* still the "Batch" message of the window that failed
TerminalReportUnlessAborted ==
  Terminated =>
    IF FatalChunks = {}
    THEN /\ progressStr.kind =
              (IF stopAt.pc = "none" THEN "Completed" ELSE "Stopped")
         /\ progressStr.total = SumItems(Succeeded)
         /\ progressStr.errors = Cardinality(Failed)
    ELSE /\ progressStr.kind = "Batch"
         /\ \A c \in FatalChunks : progressStr.batchIdx = WindowOf(c) + 1

TerminalReportUnlessAbortedWitness ==
  /\ Terminated
  /\ FatalChunks = {}
  /\ stopAt.pc = "await"
  /\ progressStr.kind = "Stopped"
  /\ progressStr.total > 0
  /\ progressStr.errors > 0

\* C10: for start < end and density > 0 the chunks start at start, end at
\* end, each starts where the previous one ends and ends later than it
\* starts, and each has count >= 1
PlannerCoverage ==
  (run > 0 /\ form.start < form.end /\ form.density > 0) =>
    /\ Len(chunks) >= 1
    /\ chunks[1].start = form.start
    /\ chunks[Len(chunks)].end = form.end
    /\ \A k \in 2..Len(chunks) : chunks[k].start = chunks[k - 1].end
    /\ \A k \in 1..Len(chunks) :
         chunks[k].start < chunks[k].end /\ chunks[k].count >= 1

\* a plan of several chunks across a DST change
PlannerCoverageWitness ==
  /\ run > 0
  /\ form.start < form.end
  /\ form.density > 0
  /\ dst.shift # 0
  /\ Len(chunks) >= 3
  /\ chunks[Len(chunks)].end - chunks[Len(chunks)].start < 5

\* C9: every run terminates; when it has, isGenerating and the stop flag are
\* false; and the first window of every run is dispatched, whatever was
\* requested during earlier runs
RunTeardown ==
  /\ isGenerating ~> ~isGenerating
  /\ [](Terminated => ~isGenerating /\ ~stopRef)
  /\ [][(run' = run + 1 /\ chunks' # <<>>) =>
          (~stopRef' /\ pc' = "await" /\ \A c \in Batch(chunks', 0) : ndisp'[c] = 1)]_vars

\* a second run is under way after the first one was stopped by the user
RunTeardownWitness ==
  /\ run = 2
  /\ pc = "await"
  /\ \E id \in Range(newsData) : id[1] = 1
  /\ stopAt.pc = "await"

\* C11 as stated: a request with a density of zero or less over a non-empty
\* range is planned into at least one chunk
NonPositiveDensityYieldsChunk ==
  (pc = "planned" /\ form.density <= 0
     /\ ParseDate(form.start) < ParseDate(form.end))
  => Len(chunks) >= 1

\* C11, amended: for a density of zero or less and a non-empty range the
\* planning loop terminates, and the list it leaves is empty, since every
\* chunk asks for no item and is dropped
NonPositiveDensityPlan ==
  /\ (pc = "planning" /\ form.density <= 0) ~> (pc = "planned")
  /\ []((pc = "planned" /\ form.density <= 0
           /\ ParseDate(form.start) < ParseDate(form.end))
        => (chunks = <<>> /\ currentDate = ParseDate(form.end)))

\* a range of several strides has been planned with a density of zero or less
NonPositiveDensityPlanWitness ==
  /\ pc = "planned"
  /\ form.density <= 0
  /\ form.end - form.start > 2 * MinChunkDays
  /\ chunks = <<>>

\* C12: a chunk of a later window is dispatched only when every fetch of
\* every earlier window has settled and the items of each one that succeeded
\* have been appended; and in the accumulator the items a run took from an
\* earlier window stand before those it took from a later window
CrossWindowOrdering ==
  /\ \A d \in DOMAIN fetches : \A c \in DOMAIN fetches :
       (ndisp[d] > 0 /\ WindowOf(c) < WindowOf(d))
         => /\ HasSettled(fetches[c])
            /\ fetches[c].st = "resolved" => Retained(c)
  /\ \A x \in DOMAIN newsData : \A y \in DOMAIN newsData :
       (newsData[x][1] = newsData[y][1]
          /\ WindowOf(newsData[x][2]) < WindowOf(newsData[y][2]))
         => x < y

\* nothing was deleted and the accumulator holds items of two windows of a run
CrossWindowOrderingWitness ==
  /\ deleted = {}
  /\ \E x \in DOMAIN newsData : \E y \in DOMAIN newsData :
       /\ newsData[x][1] = newsData[y][1]
       /\ WindowOf(newsData[x][2]) < WindowOf(newsData[y][2])

\* the items of t stand in s, in the same relative order
OrderKept(s, t) ==
  \E f \in [DOMAIN t -> DOMAIN s] :
    /\ \A a \in DOMAIN t : \A b \in DOMAIN t : a < b => f[a] < f[b]
    /\ \A a \in DOMAIN t : s[f[a]] = t[a]

\* number of items of s with the id
Occurrences(s, id) == Cardinality({k \in DOMAIN s : s[k] = id})

\* C13: a handleDelete(id) leaves no item with the id, keeps every other item
\* and the relative order of the items, and changes nothing when no item has
\* the id; a further handleDelete of an id already deleted changes nothing
IdempotentRemoval ==
  [][/\ OrderKept(newsData, newsData')
     /\ \A id \in deleted' \ deleted :
          /\ Occurrences(newsData', id) = 0
          /\ \A x \in DeleteIds \ {id} :
               Occurrences(newsData', x) = Occurrences(newsData, x)
          /\ Occurrences(newsData, id) = 0 => newsData' = newsData
     /\ deleted' = deleted => newsData' = newsData]_vars

\* an id has been deleted and items are left, two of them with the same id
IdempotentRemovalWitness ==
  /\ deleted # {}
  /\ Len(newsData) = MaxLen - 2
  /\ \E x \in Range(newsData) : Occurrences(newsData, x) = 2

\* C14: the file handleDownload produces from a non-empty accumulator is the
\* header line followed by one row per item of the accumulator, in its
\* order, however many items there are and whatever part of them the table
\* displays; from an empty accumulator no file is produced
ExportCompleteness ==
  [][IF newsData = <<>>
     THEN download' = download
     ELSE /\ Len(download') = Len(newsData) + 1
          /\ download'[1] = Headers
          /\ \A k \in DOMAIN newsData : download'[k + 1].id = newsData[k]
          /\ Len(download') - 1 >= Len(DisplayData(newsData))]_vars

\* a file has been produced from more items than the table displays
ExportCompletenessWitness ==
  /\ Len(newsData) > DISPLAY_LIMIT
  /\ Len(DisplayData(newsData)) = DISPLAY_LIMIT
  /\ Len(download) = Len(newsData) + 1

\* C15: for start < end and a density above 0 the plan has
\* ceil((end - start) / chunkDays) chunks, each but the last of chunkDays
\* days, the last of at most chunkDays days, each with the count
\* ceil(days * density); 9 days at 1.0 item a day are one chunk of count 9
PlannerStride ==
  (pc = "planned" /\ form.start < form.end /\ form.density > 0) =>
    LET chunkDays == ChunkDays(form.density)
        n == Len(chunks)
    IN  /\ n = CeilDiv(form.end - form.start, chunkDays)
        /\ \A k \in 1..(n - 1) : chunks[k].end - chunks[k].start = chunkDays
        /\ n >= 1 => chunks[n].end - chunks[n].start <= chunkDays
        /\ \A k \in 1..n :
             chunks[k].count
               = CeilDiv((chunks[k].end - chunks[k].start) * form.density, 10)
        /\ (form.end - form.start = 9 /\ form.density = 10)
             => (n = 1 /\ chunks[1].count = 9)

\* C16: a run whose start equals its end plans no chunk, dispatches no fetch,
\* takes no pause, leaves the accumulator as it was, sets no error, and has
\* returned with the status Completed and the totals 0 and 0
EmptyPlan ==
  [][(run' = run + 1 /\ form'.start = form'.end) =>
       /\ chunks' = <<>>
       /\ fetches' = <<>> /\ calls' = calls
       /\ pc' = "idle" /\ ~isGenerating'
       /\ newsData' = newsData
       /\ error' = "null"
       /\ progressStr'.kind = "Completed"
       /\ progressStr'.total = 0 /\ progressStr'.errors = 0]_vars

\* a run over an empty range has returned, after a run that collected items
EmptyPlanWitness ==
  /\ Terminated
  /\ form.start = form.end
  /\ chunks = <<>>
  /\ progressStr.kind = "Completed"
  /\ newsData # <<>>

\* a fetch of the window in flight has failed with an "API Key" error
FatalInWindow ==
  \E c \in Batch(chunks, i) :
    fetches[c].st = "rejected" /\ fetches[c].err \in {"KeyMissing", "KeyOther"}

\* C17: when the results of a window have been processed the run pauses if
\* and only if a further window remains and the stop flag is not set; it
\* does not pause after the last window, once stopped, or on a fatal
\* failure, and it reaches the next window through the pause only
InterBatchPause ==
  [][/\ (pc = "await" /\ pc' # "await") =>
          (pc' = "pause" <=>
             (~FatalInWindow /\ i + 3 < Len(chunks) /\ ~stopRef))
     /\ (pc = "await" /\ pc' = "await") => i' = i
     /\ (pc' = "pause" /\ pc # "pause") => pc = "await"]_vars

\* the run pauses between its first window and its second
InterBatchPauseWitness ==
  /\ pc = "pause"
  /\ ~stopRef
  /\ i + 3 < Len(chunks)
  /\ FatalChunks = {}

\* the result loop of the run has appended the items of chunk c: its fetch
\* resolved, its window has been processed, and no fetch before it in the
\* window failed with an "API Key" error
Appended(c) ==
  /\ fetches[c].st = "resolved"
  /\ ndisp[c] > 0
  /\ c <= i \/ pc # "await"
  /\ \A d \in FatalChunks : d > c

\* the items the run has appended so far, in the order of the appends
RECURSIVE AppendedFrom(_)
AppendedFrom(c) ==
  IF c > Len(chunks) THEN <<>>
  ELSE (IF Appended(c) THEN [k \in 1..fetches[c].n |-> <<run, c, k>>]
        ELSE <<>>) \o AppendedFrom(c + 1)

\* C18: at whatever points of the run handleDelete was called, the items of
\* the run that are in the accumulator are the items the run has appended,
\* in the order of the appends, less the deleted ones, as if the deletions
\* had come last; and no item is in the accumulator twice
DeleteCommutes ==
  /\ SelectSeq(newsData, LAMBDA it : it[1] = run)
       = SelectSeq(AppendedFrom(1), LAMBDA it : it \notin deleted)
  /\ \A x \in DOMAIN newsData : \A y \in DOMAIN newsData :
       newsData[x] = newsData[y] => x = y

\* the second window is in flight, an item the run appended from its first
\* window has been deleted and another one is in the accumulator
DeleteCommutesWitness ==
  /\ pc = "await"
  /\ i = 3
  /\ \E id \in deleted : id[1] = run
  /\ \E it \in Range(newsData) : it[1] = run

\* upstream requests the unsettled call f has issued so far
Requests(f) == IF f.st = "pending" THEN f.attempt + 1 ELSE f.attempt

\* what a step makes of the fetchESGNews call of a chunk, from f to g
CallStep(f, g) ==
  /\ (f.st = "idle" /\ g # f) =>
       IF apiKey THEN g.st = "pending" /\ g.attempt = 0
       ELSE g.st = "rejected" /\ g.err = "KeyMissing"
  /\ (f.st = "pending" /\ g # f) =>
       \/ g.st = "resolved"
       \/ g.st = "rejected" /\ g.err = "KeyOther"
       \/ g.st = "rejected" /\ g.err = "Transient" /\ f.attempt = 2
       \/ g.st = "backoff" /\ g.attempt = f.attempt + 1 /\ g.attempt < 3
  /\ (f.st = "backoff" /\ g # f) => (g.st = "pending" /\ g.attempt = f.attempt)
  /\ HasSettled(f) => g = f

\* C19: a call of fetchESGNews has one upstream request at a time and at most
\* 3 in all; it resolves with the first request that succeeds, rejects at
\* the first failure whose message contains "API Key", otherwise retries
\* after a failure and rejects at the third failure; without an API key it
\* rejects at once and issues no request
BoundedRetry ==
  /\ [](\A c \in DOMAIN fetches :
          /\ Requests(fetches[c]) <= 3
          /\ (fetches[c].st \in {"pending", "backoff"}) => apiKey)
  /\ [][IF run' = run
        THEN \A c \in DOMAIN fetches : CallStep(fetches[c], fetches'[c])
        ELSE \A c \in DOMAIN fetches' :
               CallStep([st |-> "idle", attempt |-> 0, n |-> 0, err |-> "none"],
                        fetches'[c])]_vars

\* a call has been rejected at its third failed request
BoundedRetryWitness ==
  \E c \in DOMAIN fetches :
    fetches[c].st = "rejected" /\ fetches[c].err = "Transient"

\* C20: the delay a call waits before its first retry is 1 second and each
\* later one is the double of the one before: 1 s, 2 s, 4 s
BackoffSchedule ==
  \A c \in DOMAIN fetches :
    fetches[c].st = "backoff" =>
      /\ fetches[c].attempt = 1 => BackoffDelay(fetches[c].attempt) = 1000
      /\ fetches[c].attempt > 1 =>
           BackoffDelay(fetches[c].attempt)
             = 2 * BackoffDelay(fetches[c].attempt - 1)

\* C21: when the window loop is left without a fatal error the status is
\* Stopped if the stop flag is set at that moment and Completed otherwise, so
\* a stop during the last window reports Stopped; and a run that reported
\* Completed has dispatched every planned chunk and seen its fetch settle
StopInFinalWindow ==
  /\ [][(pc \in {"await", "pause"} /\ pc' = "idle" /\ thrown' = "none") =>
          progressStr'.kind = IF stopRef THEN "Stopped" ELSE "Completed"]_vars
  /\ []((Terminated /\ thrown = "none" /\ progressStr.kind = "Completed") =>
          \A c \in 1..Len(chunks) :
            ndisp[c] > 0 /\ HasSettled(fetches[c]))

\* the run was stopped while its last window was in flight: it has returned
\* with the status Stopped, every chunk dispatched and settled
StopInFinalWindowWitness ==
  /\ Terminated
  /\ progressStr.kind = "Stopped"
  /\ Len(chunks) > 3
  /\ stopAt.pc = "await" /\ stopAt.i = 3
  /\ \A c \in 1..Len(chunks) : ndisp[c] > 0 /\ HasSettled(fetches[c])

\* C22: once the stop flag is set no chunk is dispatched; setting it touches
\* no fetchESGNews call, and the calls in flight go on as they would have,
\* retrying until they succeed or fail for good; the run leaves the await of
\* its window, and so reaches its status, only when all of them have
\* settled, which it eventually does
StopKeepsRetries ==
  /\ [][stopRef => (ndisp' = ndisp /\ calls' = calls)]_vars
  /\ [][(stopRef' /\ ~stopRef) => fetches' = fetches]_vars
  /\ [][(stopRef /\ run' = run) =>
          \A c \in DOMAIN fetches :
            LET f == fetches[c]
                g == fetches'[c]
            IN  /\ (f.st = "pending" /\ g.st = "rejected") =>
                     (g.err = "KeyOther" \/ f.attempt = 2)
                /\ (f.st = "pending" /\ g.st = "backoff") =>
                     g.attempt = f.attempt + 1
                /\ (f.st = "backoff" /\ g # f) =>
                     (g.st = "pending" /\ g.attempt = f.attempt)]_vars
  /\ [][(pc = "await" /\ pc' # "await") =>
          \A c \in Batch(chunks, i) : HasSettled(fetches[c])]_vars
  /\ (stopRef /\ pc = "await") ~> Terminated

\* the run has been stopped and a call of its window is at its third request
StopKeepsRetriesWitness ==
  /\ stopRef
  /\ pc = "await"
  /\ stopAt.pc = "await"
  /\ \E c \in Batch(chunks, i) :
       fetches[c].st = "pending" /\ fetches[c].attempt = 2

\* C23: a run is suspended at an await exactly while isGenerating is true,
\* so no run starts while another has not returned, whatever the user does;
\* isGenerating is cleared only when the run returns through its finally
\* block, and the counters and the stop flag are reset only by a run that
\* starts when none is suspended
SingleActiveRun ==
  /\ [](isGenerating <=> pc \in {"await", "pause", "selectKey"})
  /\ [][run' # run => (pc = "idle" /\ ~isGenerating /\ ~stopRef)]_vars
  /\ [][(isGenerating /\ ~isGenerating') => (pc' = "idle" /\ ~stopRef')]_vars
  /\ [][(pc # "idle" /\ pc' # "idle") =>
          (totalGenerated' >= totalGenerated /\ errorCount' >= errorCount
             /\ chunks' = chunks /\ (stopRef => stopRef'))]_vars

\* a later run is suspended with its fetches in flight; the user has deleted
\* an item of an earlier run and has asked this run to stop
SingleActiveRunWitness ==
  /\ run >= 2
  /\ isGenerating
  /\ pc = "await"
  /\ stopRef
  /\ \E id \in deleted : id[1] < run

\* C24: no call of fetchESGNews ends at the statement after its retry loop:
\* an iteration returns, throws, or waits with attempt below MAX_RETRIES (3),
\* so the loop test never fails
AfterLoopUnreachable ==
  /\ [](\A c \in DOMAIN fetches :
          /\ fetches[c].err # "Exhausted"
          /\ fetches[c].st = "backoff" => fetches[c].attempt < 3)
  /\ [][run' = run =>
          \A c \in DOMAIN fetches :
            (fetches[c].st = "pending" /\ fetches'[c] # fetches[c]) =>
              \/ fetches'[c].st = "resolved"
              \/ fetches'[c].st = "rejected"
              \/ fetches'[c].st = "backoff" /\ fetches'[c].attempt < 3]_vars

\* a call waits before its last request: the loop test is about to be
\* evaluated with the largest attempt it ever sees
AfterLoopUnreachableWitness ==
  \E c \in DOMAIN fetches :
    fetches[c].st = "backoff" /\ fetches[c].attempt = 2
====
